---- MODULE Spec2Model ----
(***************************************************************************)
(* The log aggregation engine of services/log-aggregator/main.py: the      *)
(* in-memory buffer log_buffer, flush_aggregated_logs and its callers      *)
(* (ingest_log, periodic_aggregation, manual_flush, lifespan shutdown),    *)
(* run by one asyncio event loop.  A coroutine runs without interruption   *)
(* from one suspension point to the next; the only suspension point inside *)
(* a flush cycle is the sink write of save_to_postgres, and it suspends    *)
(* only when a connection pool exists.                                     *)
(***************************************************************************)
EXTENDS Integers, Sequences, FiniteSets, TLC

\* ---------------------------------------------------------------- bounds
MaxEvents == 2      \* ingest calls in one behaviour
MaxFlushCalls == 1  \* POST /flush calls and wake-ups of periodic_aggregation
                    \* in one behaviour, together
MaxInFlight == 1    \* requests and timer wake-ups suspended in a sink write
                    \* at one time
MaxLogs == 5        \* events buffered for one source when a flush starts, in
                    \* SpecSummary

\* BATCH_SIZE = int(os.environ.get("BATCH_SIZE", "10")): the service run
\* with BATCH_SIZE=2 in its environment.
BATCH_SIZE == 2

Sources == {"db", "auth"}
Levels == {"info", "error", "critical"}
Messages == {"x"}

\* a field the request body does not have, a variable the environment does
\* not have
Absent == "<absent>"

\* a field the request body gives as JSON null: None in the LogEntry
Null == "<null>"

\* the bodies POST /logs/ingest is sent in SpecInput: well-formed ones, and
\* ones with a level outside the documented set, no level, a null level, an
\* empty or no message, an empty or no source
Requests ==
    {[source |-> "db", level |-> "info", message |-> "x"],
     [source |-> "db", level |-> "error", message |-> "x"],
     [source |-> "db", level |-> "fatal", message |-> "x"],
     [source |-> "db", level |-> Absent, message |-> "x"],
     [source |-> "db", level |-> Null, message |-> "x"],
     [source |-> "db", level |-> "info", message |-> ""],
     [source |-> "db", level |-> "info", message |-> Absent],
     [source |-> "", level |-> "info", message |-> "x"],
     [source |-> Absent, level |-> "info", message |-> "x"]}

\* what the environment may hold for AGGREGATION_WINDOW and for BATCH_SIZE
EnvValues == {Absent, "30", "10", "2", " 7 ", "0", "-1", "2.5", "abc", ""}

VARIABLES
    heap,        \* the live dict objects, by identity
    log_buffer,  \* the global: which dict object it is bound to
    last_flush,  \* the global: logical time of the last buffer reset
    db_pool,     \* "none" | "open" | "closed"
    db_up,       \* whether the database server answers: an insert raises
                 \* when it does not
    phase,       \* lifespan: "serving" | "stopping" | "stopped"
    timer,       \* periodic_aggregation: "sleeping" | "flushing" | "dead"
    ticks,       \* wake-ups of periodic_aggregation so far
    manuals,     \* POST /flush calls so far
    frames,      \* flush invocations suspended in a sink write, by caller
    next_id,     \* history: the number of ingest calls so far, plus one
    escalated,   \* history: an error or critical event has been ingested
    cycles,      \* history: the flush cycles that passed the empty check,
                 \*          by caller
    handed,      \* history: the records handed to save_to_postgres by the
                 \*          last step
    counted,     \* history: in how many records each event was counted
    failed_ids,  \* history: the events of the records whose store failed
    responses,   \* history: what each finished HTTP call returned
    config,      \* the environment the module was loaded with, and the
                 \* AGGREGATION_WINDOW and BATCH_SIZE it got from it
    defaulted,   \* history: the events ingested without a level field
    last_reply   \* history: what the last step returned, when it was a
                 \* GET /stats, a GET /health or a rejected request, and
                 \* what it was sent, when it was a POST /logs/http

vars == <<heap, log_buffer, last_flush, db_pool, db_up, phase, timer, ticks,
          manuals, frames, next_id, escalated, cycles, handed, counted,
          failed_ids, responses, config, defaulted, last_reply>>

\* ------------------------------------------------------ configuration
\* int(s) on the strings of EnvValues: the integer, or ValueError raised
PyInt(s) ==
    CASE s = "30" -> [raised |-> FALSE, value |-> 30]
      [] s = "10" -> [raised |-> FALSE, value |-> 10]
      [] s = "2" -> [raised |-> FALSE, value |-> 2]
      [] s = " 7 " -> [raised |-> FALSE, value |-> 7]
      [] s = "0" -> [raised |-> FALSE, value |-> 0]
      [] s = "-1" -> [raised |-> FALSE, value |-> 0 - 1]
      [] OTHER -> [raised |-> TRUE, value |-> 0]

\* os.environ.get(name, default)
EnvironGet(env, name, default) ==
    IF env[name] = Absent THEN default ELSE env[name]

\* the module's configuration lines run in environment env: the two
\* globals, or the import fails with the ValueError of int()
LoadConfig(env) ==
    LET w == PyInt(EnvironGet(env, "AGGREGATION_WINDOW", "30"))
        b == PyInt(EnvironGet(env, "BATCH_SIZE", "10"))
    IN  IF w.raised \/ b.raised
        THEN [env |-> env, state |-> "aborted",
              AGGREGATION_WINDOW |-> 0, BATCH_SIZE |-> 0]
        ELSE [env |-> env, state |-> "loaded",
              AGGREGATION_WINDOW |-> w.value, BATCH_SIZE |-> b.value]

\* ------------------------------------------------------------ callers
IngestCall(n) == [kind |-> "ingest", n |-> n]
ManualCall(n) == [kind |-> "manual", n |-> n]
TimerCall(n) == [kind |-> "timer", n |-> n]
ShutdownCall == [kind |-> "shutdown", n |-> 0]

Put(f, k, v) == [x \in DOMAIN f \cup {k} |-> IF x = k THEN v ELSE f[x]]
Drop(f, k) == [x \in DOMAIN f \ {k} |-> f[x]]

\* ------------------------------------------------- defaultdict(list)
\* A dict object is the sequence of its entries in insertion order.
KeyIndex(dct, src) ==
    IF \E i \in 1..Len(dct) : dct[i].source = src
    THEN CHOOSE i \in 1..Len(dct) : dct[i].source = src
    ELSE 0

\* log_buffer[src] : defaultdict inserts the missing key with an empty list
DictTouch(dct, src) ==
    IF KeyIndex(dct, src) = 0
    THEN Append(dct, [source |-> src, logs |-> <<>>])
    ELSE dct

\* log_buffer[src].append(log_data)
DictAppend(dct, src, log) ==
    LET t == DictTouch(dct, src)
        i == KeyIndex(t, src)
    IN  [t EXCEPT ![i].logs = Append(@, log)]

\* sum(len(logs) for logs in log_buffer.values())
RECURSIVE SumLens(_, _)
SumLens(dct, i) ==
    IF i > Len(dct) THEN 0 ELSE Len(dct[i].logs) + SumLens(dct, i + 1)

TotalBuffered(dct) == SumLens(dct, 1)

\* ------------------------------------------------------ classification
\* str.lower() on the level strings a caller may send
Lower(level) ==
    CASE level = "ERROR" -> "error"
      [] level = "Error" -> "error"
      [] level = "CRITICAL" -> "critical"
      [] level = "Warning" -> "warning"
      [] level = "WARN" -> "warn"
      [] level = "INFO" -> "info"
      [] OTHER -> level

\* log.get("level", "info").lower() in ["error", "warning"]
IsErrorLog(log) == Lower(log.level) \in {"error", "warning"}

\* (variant: "critical" left out of the list)
EscalatesErrorOnly(level) == Lower(level) \in {"error"}

\* log_entry.level.lower() in ["error", "critical"]
Escalates(level) == Lower(level) \in {"error", "critical"}

\* (variant: > for >= in the size test)
ShouldFlushStrict(level, dct) ==
    Escalates(level) \/ TotalBuffered(dct) > BATCH_SIZE

\* the early-flush condition of ingest_log, on the dict after the append
ShouldFlush(level, dct) ==
    Escalates(level) \/ TotalBuffered(dct) >= BATCH_SIZE

SeqIds(logs) == {logs[i].id : i \in 1..Len(logs)}

\* the events a dict holds
IdsOf(dct) == UNION {SeqIds(dct[i].logs) : i \in 1..Len(dct)}

\* None.lower(): AttributeError
LowerRaises(level) == level = Null

\* ------------------------------------------------------- summary text
\* seq[:n], of a list or of a str
Take(seq, n) == IF Len(seq) <= n THEN seq ELSE SubSeq(seq, 1, n)

\* '; '.join(parts)
RECURSIVE Join(_)
Join(parts) ==
    IF parts = <<>> THEN ""
    ELSE IF Len(parts) = 1 THEN parts[1]
    ELSE parts[1] \o "; " \o Join(Tail(parts))

\* message_counts after the loop over logs: the distinct messages in the
\* order of their first occurrence, each with its count
RECURSIVE MessageCounts(_, _)
MessageCounts(logs, acc) ==
    IF logs = <<>> THEN acc
    ELSE LET msg == Head(logs).message
             hit == {i \in 1..Len(acc) : acc[i].msg = msg}
         IN  MessageCounts(Tail(logs),
                 IF hit = {}
                 THEN Append(acc, [msg |-> msg, count |-> 1])
                 ELSE [acc EXCEPT ![CHOOSE i \in hit : TRUE].count = @ + 1])

\* (variant: a sort that is not stable, the items of equal count end in
\* the reverse of their order)
RECURSIVE SortedByCountUnstable(_)
SortedByCountUnstable(items) ==
    IF items = <<>> THEN <<>>
    ELSE LET done == SortedByCountUnstable(SubSeq(items, 1, Len(items) - 1))
             item == items[Len(items)]
             k == Cardinality({i \in 1..Len(done) :
                                  done[i].count > item.count})
         IN  SubSeq(done, 1, k) \o <<item>> \o SubSeq(done, k + 1, Len(done))

\* sorted(items, key=lambda x: x[1], reverse=True): stable, the items of
\* equal count keep their order
RECURSIVE SortedByCount(_)
SortedByCount(items) ==
    IF items = <<>> THEN <<>>
    ELSE LET done == SortedByCount(SubSeq(items, 1, Len(items) - 1))
             item == items[Len(items)]
             k == Cardinality({i \in 1..Len(done) :
                                  done[i].count >= item.count})
         IN  SubSeq(done, 1, k) \o <<item>> \o SubSeq(done, k + 1, Len(done))

\* top_messages of the loop body: sorted(message_counts.items(), ...)[:3]
top_messages(logs) == Take(SortedByCount(MessageCounts(logs, <<>>)), 3)

\* (variant: the error messages not cut to 100 characters)
agg_text_uncut(source, error_logs, info_logs, logs) ==
    IF error_logs # <<>>
    THEN "[" \o source \o "] " \o ToString(Len(error_logs)) \o " errors, "
         \o ToString(Len(info_logs)) \o " info messages. "
         \o "Errors: "
         \o Join([i \in 1..Len(Take(error_logs, 3)) |->
                     error_logs[i].message])
    ELSE "[" \o source \o "] Activity summary: "
         \o Join([i \in 1..Len(top_messages(logs)) |->
                     top_messages(logs)[i].msg \o " ("
                     \o ToString(top_messages(logs)[i].count) \o "x)"])

\* (variant: the two counts of the text in each other's place)
agg_text_swapped(source, error_logs, info_logs, logs) ==
    IF error_logs # <<>>
    THEN "[" \o source \o "] " \o ToString(Len(info_logs)) \o " errors, "
         \o ToString(Len(error_logs)) \o " info messages. "
         \o "Errors: "
         \o Join([i \in 1..Len(Take(error_logs, 3)) |->
                     Take(error_logs[i].message, 100)])
    ELSE "[" \o source \o "] Activity summary: "
         \o Join([i \in 1..Len(top_messages(logs)) |->
                     top_messages(logs)[i].msg \o " ("
                     \o ToString(top_messages(logs)[i].count) \o "x)"])

\* agg_text of the loop body
agg_text(source, error_logs, info_logs, logs) ==
    IF error_logs # <<>>
    THEN "[" \o source \o "] " \o ToString(Len(error_logs)) \o " errors, "
         \o ToString(Len(info_logs)) \o " info messages. "
         \o "Errors: "
         \o Join([i \in 1..Len(Take(error_logs, 3)) |->
                     Take(error_logs[i].message, 100)])
    ELSE "[" \o source \o "] Activity summary: "
         \o Join([i \in 1..Len(top_messages(logs)) |->
                     top_messages(logs)[i].msg \o " ("
                     \o ToString(top_messages(logs)[i].count) \o "x)"])

\* (variant: elif level == "info" for the else of the classification)
AggregateElif(source, logs) ==
    LET error_logs == SelectSeq(logs, LAMBDA l : IsErrorLog(l))
        info_logs == SelectSeq(logs, LAMBDA l : Lower(l.level) = "info")
    IN  [source |-> source,
         text |-> agg_text(source, error_logs, info_logs, logs),
         total_logs |-> Len(logs),
         error_count |-> Len(error_logs),
         info_count |-> Len(info_logs),
         events |-> SeqIds(logs)]

\* One source's AggregatedLog as built by the loop body.  events is
\* bookkeeping: the events the record counted.
Aggregate(source, logs) ==
    LET error_logs == SelectSeq(logs, LAMBDA l : IsErrorLog(l))
        info_logs == SelectSeq(logs, LAMBDA l : ~IsErrorLog(l))
    IN  [source |-> source,
         text |-> agg_text(source, error_logs, info_logs, logs),
         total_logs |-> Len(logs),
         error_count |-> Len(error_logs),
         info_count |-> Len(info_logs),
         events |-> SeqIds(logs)]

\* the sources of a dict that have at least one buffered event
Pending(dct) ==
    {dct[i].source : i \in {j \in 1..Len(dct) : dct[j].logs # <<>>}}

RECURSIVE SumTotals(_)
SumTotals(recs) ==
    IF recs = {} THEN 0
    ELSE LET r == CHOOSE x \in recs : TRUE
         IN  r.total_logs + SumTotals(recs \ {r})

\* ------------------------------------------------- flush_aggregated_logs
\* The for loop over log_buffer.items() of dict d, from entry pos on, by an
\* iterator created when the dict had `used` entries.  Every step of the
\* iterator raises RuntimeError when the dict's size has changed since.  An
\* entry with no logs is skipped; the classification of an entry raises
\* AttributeError at a log whose level is None, before any record is built
\* for the entry.  With a connection pool the loop suspends
\* in the sink write of the first record ("await"); without one
\* save_to_postgres returns False at once and the loop goes on.  "end": the
\* iterator is exhausted.  recs: the records handed to save_to_postgres.
RECURSIVE RunLoop(_, _, _, _, _)
RunLoop(h, d, pos, used, recs) ==
    IF Len(h[d]) # used
    THEN [kind |-> "raise", pos |-> pos, recs |-> recs]
    ELSE IF pos > Len(h[d])
    THEN [kind |-> "end", pos |-> pos, recs |-> recs]
    ELSE IF h[d][pos].logs = <<>>
    THEN RunLoop(h, d, pos + 1, used, recs)
    ELSE IF \E j \in 1..Len(h[d][pos].logs) :
                LowerRaises(h[d][pos].logs[j].level)
    THEN [kind |-> "raise", pos |-> pos, recs |-> recs]
    ELSE IF db_pool = "open"
    THEN [kind |-> "await", pos |-> pos,
          recs |-> recs \cup {Aggregate(h[d][pos].source, h[d][pos].logs)}]
    ELSE RunLoop(h, d, pos + 1, used,
                 recs \cup {Aggregate(h[d][pos].source, h[d][pos].logs)})

\* Reference counting: a dict object lives while log_buffer is bound to it
\* or a suspended loop iterates it.
Live(h, lb, fr) ==
    [d \in {lb} \cup {fr[c].d : c \in DOMAIN fr} |-> h[d]]

\* What the caller of flush_aggregated_logs does once the call is over:
\* how = "noop" (the buffer was empty, or no flush was called), "done" (the
\* buffer was reset) or "raise" (the loop raised).  h is the heap at that
\* moment, src the caller's log_entry.source (ingest_log only).
AfterFlush(caller, src, how, h) ==
    CASE caller.kind = "ingest" ->
            \* return {"status": "accepted",
            \*         "buffer_size": len(log_buffer[log_entry.source])}
            LET dct == DictTouch(h[log_buffer'], src)
            IN  /\ heap' = Live(IF how = "raise" THEN h
                                ELSE [h EXCEPT ![log_buffer'] = dct],
                                log_buffer', frames')
                /\ responses' = Put(responses, caller,
                       IF how = "raise"
                       THEN [status |-> "error"]
                       ELSE [status |-> "accepted",
                             buffer_size |-> Len(dct[KeyIndex(dct, src)].logs)])
                /\ UNCHANGED <<timer, phase, db_pool>>
      [] caller.kind = "manual" ->
            \* return {"status": "flushed", "timestamp": ...}
            /\ heap' = Live(h, log_buffer', frames')
            /\ responses' = Put(responses, caller,
                   IF how = "raise"
                   THEN [status |-> "error"]
                   ELSE [status |-> "flushed"])
            /\ UNCHANGED <<timer, phase, db_pool>>
      [] caller.kind = "timer" ->
            \* back to asyncio.sleep, or the task ends with the exception
            /\ heap' = Live(h, log_buffer', frames')
            /\ timer' = IF how = "raise" THEN "dead" ELSE "sleeping"
            /\ UNCHANGED <<responses, phase, db_pool>>
      [] caller.kind = "shutdown" ->
            \* if db_pool: await db_pool.close()
            /\ heap' = Live(h, log_buffer', frames')
            /\ phase' = "stopped"
            /\ db_pool' = IF how # "raise" /\ db_pool = "open"
                          THEN "closed" ELSE db_pool
            /\ UNCHANGED <<responses, timer>>

\* The caller stays suspended in its await of flush_aggregated_logs.
Suspended(caller, h) ==
    /\ heap' = Live(h, log_buffer', frames')
    /\ timer' = IF caller.kind = "timer" THEN "flushing" ELSE timer
    /\ phase' = IF caller.kind = "shutdown" THEN "stopping" ELSE phase
    /\ UNCHANGED <<responses, db_pool>>

\* What is kept of a cycle once it is over: how it ended, whether it handed
\* the sink a record for every source that had events when it started
\* (covered), whether those sources have no event in the buffer now
\* (clean), whether its records count as many events as the buffer held
\* when it started (lossless), whether a store of it has failed, whether
\* its records count the very events the buffer held when it started
\* (exact), whether the events ingested since it started are in the buffer
\* now (kept), and whether none of the events it counted is (cleared).
Ended(cyc, how, dct) ==
    [state |-> how,
     why |-> cyc.why,
     covered |-> cyc.start \subseteq cyc.recorded,
     clean |-> cyc.start \cap Pending(dct) = {},
     lossless |-> cyc.total = cyc.start_total,
     any_failed |-> cyc.failed # {},
     exact |-> cyc.events = cyc.start_ids,
     kept |-> (cyc.upto..(next_id' - 1)) \subseteq IdsOf(dct),
     cleared |-> cyc.events \cap IdsOf(dct) = {}]

\* The loop of caller's cycle goes on (or starts) at entry pos of dict d.
\* cycs and fids: the history as the step found it.
Resume(caller, src, h, cycs, fids, d, pos, used) ==
    \E r \in {RunLoop(h, d, pos, used, {})} :
    LET unstored == IF db_pool = "open" THEN {} ELSE r.recs
        cyc == [cycs[caller] EXCEPT
                   !.recorded = @ \cup {x.source : x \in r.recs},
                   !.total = @ + SumTotals(r.recs),
                   !.events = @ \cup UNION {x.events : x \in r.recs},
                   !.failed = @ \cup {x.source : x \in unstored}]
    IN
    /\ handed' = r.recs
    /\ counted' = [i \in DOMAIN counted |->
                     counted[i] + Cardinality({x \in r.recs : i \in x.events})]
    /\ failed_ids' = fids \cup UNION {x.events : x \in unstored}
    /\ CASE r.kind = "await" ->
              /\ frames' = Put(frames, caller,
                     [d |-> d, pos |-> r.pos, used |-> used, src |-> src,
                      aggregated |->
                          CHOOSE x \in r.recs :
                              x.source = h[d][r.pos].source])
              /\ UNCHANGED <<log_buffer, last_flush>>
              /\ Suspended(caller, h)
              /\ cycles' = [cycs EXCEPT ![caller] = cyc]
         [] r.kind = "end" ->
              \* log_buffer = defaultdict(list); last_flush = datetime.now()
              /\ frames' = Drop(frames, caller)
              /\ log_buffer' = caller
              /\ last_flush' = last_flush + 1
              /\ AfterFlush(caller, src, "done", Put(h, caller, <<>>))
              /\ cycles' = [cycs EXCEPT ![caller] =
                     Ended(cyc, "done", heap'[log_buffer'])]
         [] r.kind = "raise" ->
              /\ frames' = Drop(frames, caller)
              /\ UNCHANGED <<log_buffer, last_flush>>
              /\ AfterFlush(caller, src, "raise", h)
              /\ cycles' = [cycs EXCEPT ![caller] =
                     Ended(cyc, "raised", heap'[log_buffer'])]

\* await flush_aggregated_logs() by caller, the heap being h; why: what
\* made the caller flush
StartFlush(caller, src, why, h) ==
    IF h[log_buffer] = <<>>
    THEN \* if not log_buffer: return
         /\ handed' = {}
         /\ UNCHANGED <<log_buffer, last_flush, frames, cycles, counted,
                        failed_ids>>
         /\ AfterFlush(caller, src, "noop", h)
    ELSE Resume(caller, src, h,
                Put(cycles, caller,
                    [state |-> "running",
                     why |-> why,
                     start |-> Pending(h[log_buffer]),
                     start_total |-> TotalBuffered(h[log_buffer]),
                     start_ids |-> IdsOf(h[log_buffer]),
                     upto |-> next_id',
                     recorded |-> {}, total |-> 0, failed |-> {},
                     events |-> {}]),
                failed_ids, log_buffer, 1, Len(h[log_buffer]))

\* ------------------------------------------------------------ actions
\* The dict objects are named by what created them: the module's
\* log_buffer = defaultdict(list), or the caller whose cycle reset it.
ModuleLoad == [kind |-> "module", n |-> 0]

\* the reply of a step that was no read and no rejected request
NoReply == [op |-> "none"]

\* the environment the service is run in
RunEnv == [AGGREGATION_WINDOW |-> Absent, BATCH_SIZE |-> "2"]

Init ==
    /\ heap = [d \in {ModuleLoad} |-> <<>>]
    /\ log_buffer = ModuleLoad
    /\ last_flush = 0
    /\ db_pool \in {"none", "open"}
    /\ db_up = TRUE
    /\ phase = "serving"
    /\ config = LoadConfig(RunEnv)
    /\ defaulted = {}
    /\ last_reply = NoReply
    /\ timer = "sleeping"
    /\ ticks = 0
    /\ manuals = 0
    /\ frames = << >>
    /\ next_id = 1
    /\ escalated = FALSE
    /\ cycles = << >>
    /\ handed = {}
    /\ counted = [i \in 1..MaxEvents |-> 0]
    /\ failed_ids = {}
    /\ responses = << >>

\* the step leaves no more than k requests and timer wake-ups suspended
Admitted(k) == Cardinality(DOMAIN frames' \ {ShutdownCall}) <= k

\* the source of a caller that has no log_entry
NoSource == "-"

\* LogEntry(**body): message and source are required and any str will do
\* for them and for level, as will null for level
LogEntryValid(src, given, msg) == src # Absent /\ msg # Absent

\* (variant: the default of the level field is "error")
LevelFieldError(given) == IF given = Absent THEN "error" ELSE given

\* level: Optional[str] = "info"
LevelField(given) == IF given = Absent THEN "info" ELSE given

\* ingest_log run on the LogEntry built from the fields src, given and
\* msg; sent: what is kept of the request when it is accepted
ingest_entry(src, given, msg, sent) ==
    /\ phase = "serving"
    /\ next_id <= MaxEvents
    /\ UNCHANGED config
    /\ IF ~LogEntryValid(src, given, msg)
       THEN \* 422 Unprocessable Entity, the handler does not run
            /\ last_reply' = [op |-> "ingest", status |-> 422]
            /\ handed' = {}
            /\ UNCHANGED <<heap, log_buffer, last_flush, db_pool, db_up,
                           phase, timer, ticks, manuals, frames, next_id,
                           escalated, cycles, counted, failed_ids, responses,
                           defaulted>>
       ELSE
       LET level == LevelField(given)
           log == [id |-> next_id, source |-> src, level |-> level,
                   message |-> msg]
           h == [heap EXCEPT ![log_buffer] = DictAppend(@, src, log)]
       IN  /\ next_id' = next_id + 1
           /\ escalated' = (escalated \/ level \in {"error", "critical"})
           /\ defaulted' = IF given = Absent THEN defaulted \cup {next_id}
                           ELSE defaulted
           /\ last_reply' = sent
           /\ UNCHANGED <<ticks, manuals, db_up>>
           /\ IF LowerRaises(level)
              THEN \* log_entry.level.lower() raises, the append is done
                   /\ handed' = {}
                   /\ UNCHANGED <<log_buffer, last_flush, frames, cycles,
                                  counted, failed_ids>>
                   /\ AfterFlush(IngestCall(next_id), src, "raise", h)
              ELSE IF ShouldFlush(level, h[log_buffer])
              THEN StartFlush(IngestCall(next_id), src,
                              IF Escalates(level) THEN "escalation"
                              ELSE "size", h)
              ELSE /\ handed' = {}
                   /\ UNCHANGED <<log_buffer, last_flush, frames, cycles,
                                  counted, failed_ids>>
                   /\ AfterFlush(IngestCall(next_id), src, "noop", h)

\* POST /logs/ingest with a body whose fields are src, given and msg
ingest_log(src, given, msg) == ingest_entry(src, given, msg, NoReply)

\* f"{method} {url} -> {status_code} ({response_time_ms}ms)"
http_message(method, url, status_code, response_time_ms) ==
    method \o " " \o url \o " -> " \o ToString(status_code)
    \o " (" \o ToString(response_time_ms) \o "ms)"

\* (variant: > for >= in the test of the status code)
ingest_http_log_gt(method, url, status_code, response_time_ms, source) ==
    ingest_entry(source,
                 IF status_code > 400 THEN "error" ELSE "info",
                 http_message(method, url, status_code, response_time_ms),
                 [op |-> "http", call |-> next_id,
                  status_code |-> status_code])

\* POST /logs/http: the level is error from status 400 on and info below,
\* and the LogEntry goes to ingest_log
ingest_http_log(method, url, status_code, response_time_ms, source) ==
    ingest_entry(source,
                 IF status_code >= 400 THEN "error" ELSE "info",
                 http_message(method, url, status_code, response_time_ms),
                 [op |-> "http", call |-> next_id,
                  status_code |-> status_code])

\* the sink write a flush cycle waits for returns: True, or False after
\* the insert raised
save_to_postgres(caller) ==
    /\ caller \in DOMAIN frames
    /\ phase # "stopped"
    /\ LET f == frames[caller]
           cycs == IF db_up THEN cycles
                   ELSE [cycles EXCEPT ![caller].failed =
                             @ \cup {f.aggregated.source}]
           fids == IF db_up THEN failed_ids
                   ELSE failed_ids \cup f.aggregated.events
       IN  /\ UNCHANGED <<ticks, manuals, db_up, next_id, escalated, config,
                          defaulted>>
           /\ last_reply' = NoReply
           /\ Resume(caller, f.src, heap, cycs, fids, f.d, f.pos + 1, f.used)

\* periodic_aggregation wakes from asyncio.sleep(AGGREGATION_WINDOW)
periodic_aggregation ==
    /\ phase # "stopped"
    /\ timer = "sleeping"
    /\ ticks + manuals < MaxFlushCalls
    /\ ticks' = ticks + 1
    /\ UNCHANGED <<manuals, db_up, next_id, escalated, config, defaulted>>
    /\ last_reply' = NoReply
    /\ StartFlush(TimerCall(ticks + 1), NoSource, "timer", heap)

\* POST /flush
manual_flush ==
    /\ phase = "serving"
    /\ ticks + manuals < MaxFlushCalls
    /\ manuals' = manuals + 1
    /\ UNCHANGED <<ticks, db_up, next_id, escalated, config, defaulted>>
    /\ last_reply' = NoReply
    /\ StartFlush(ManualCall(manuals + 1), NoSource, "manual", heap)

\* (variant: the final flush left out)
lifespan_no_flush ==
    /\ phase = "serving"
    /\ phase' = "stopped"
    /\ db_pool' = IF db_pool = "open" THEN "closed" ELSE db_pool
    /\ handed' = {}
    /\ last_reply' = NoReply
    /\ UNCHANGED <<heap, log_buffer, last_flush, db_up, timer, ticks, manuals,
                   frames, next_id, escalated, cycles, counted, failed_ids,
                   responses, config, defaulted>>

\* lifespan after its yield: the server has stopped taking requests
lifespan ==
    /\ phase = "serving"
    /\ UNCHANGED <<ticks, manuals, db_up, next_id, escalated, config,
                   defaulted>>
    /\ last_reply' = NoReply
    /\ StartFlush(ShutdownCall, NoSource, "shutdown", heap)

\* the database server goes away
db_outage ==
    /\ db_pool = "open"
    /\ phase # "stopped"
    /\ db_up
    /\ db_up' = FALSE
    /\ handed' = {}
    /\ last_reply' = NoReply
    /\ UNCHANGED <<heap, log_buffer, last_flush, db_pool, phase, timer, ticks,
                   manuals, frames, next_id, escalated, cycles, counted,
                   failed_ids, responses, config, defaulted>>

Next ==
    \/ \E src \in Sources, level \in Levels, msg \in Messages :
          ingest_log(src, level, msg) /\ Admitted(MaxInFlight)
    \/ \E caller \in DOMAIN frames : save_to_postgres(caller)
    \/ periodic_aggregation /\ Admitted(MaxInFlight)
    \/ manual_flush /\ Admitted(MaxInFlight)
    \/ lifespan
    \/ db_outage

Spec == Init /\ [][Next]_vars

\* the same service with one more request admitted at a time
NextRace ==
    \/ \E src \in Sources, level \in Levels, msg \in Messages :
          ingest_log(src, level, msg) /\ Admitted(MaxInFlight + 1)
    \/ \E caller \in DOMAIN frames : save_to_postgres(caller)
    \/ periodic_aggregation /\ Admitted(MaxInFlight + 1)
    \/ manual_flush /\ Admitted(MaxInFlight + 1)
    \/ lifespan
    \/ db_outage

SpecRace == Init /\ [][NextRace]_vars

\* GET /stats
get_stats ==
    [total_buffered |-> TotalBuffered(heap[log_buffer]),
     sources |-> [i \in 1..Len(heap[log_buffer]) |->
                     <<heap[log_buffer][i].source,
                       Len(heap[log_buffer][i].logs)>>],
     last_flush |-> last_flush]

\* GET /health
health_check ==
    [status |-> IF db_pool = "open" THEN "healthy" ELSE "unhealthy",
     database |-> IF db_pool = "open" THEN "connected" ELSE "disconnected",
     buffer_size |-> TotalBuffered(heap[log_buffer]),
     sources |-> [i \in 1..Len(heap[log_buffer]) |->
                     heap[log_buffer][i].source],
     last_flush |-> last_flush]

\* (variant: the per-source counts taken as len(log_buffer[source]) for the
\* sources the service knows of)
GET_stats_indexing ==
    /\ phase = "serving"
    /\ heap' = [heap EXCEPT ![log_buffer] =
                                DictTouch(DictTouch(@, "db"), "auth")]
    /\ last_reply' = [op |-> "stats", body |-> get_stats]
    /\ handed' = {}
    /\ UNCHANGED <<log_buffer, last_flush, db_pool, db_up, phase, timer,
                   ticks, manuals, frames, next_id, escalated, cycles,
                   counted, failed_ids, responses, config, defaulted>>

\* a GET /stats request: the handler has no await and assigns nothing
GET_stats ==
    /\ phase = "serving"
    /\ last_reply' = [op |-> "stats", body |-> get_stats]
    /\ handed' = {}
    /\ UNCHANGED <<heap, log_buffer, last_flush, db_pool, db_up, phase, timer,
                   ticks, manuals, frames, next_id, escalated, cycles,
                   counted, failed_ids, responses, config, defaulted>>

\* a GET /health request
GET_health ==
    /\ phase = "serving"
    /\ last_reply' = [op |-> "health", body |-> health_check]
    /\ handed' = {}
    /\ UNCHANGED <<heap, log_buffer, last_flush, db_pool, db_up, phase, timer,
                   ticks, manuals, frames, next_id, escalated, cycles,
                   counted, failed_ids, responses, config, defaulted>>

\* the service with its read-only endpoints called, over a database that
\* stays up
NextRead ==
    \/ \E src \in Sources, level \in Levels, msg \in Messages :
          ingest_log(src, level, msg) /\ Admitted(MaxInFlight)
    \/ \E caller \in DOMAIN frames : save_to_postgres(caller)
    \/ periodic_aggregation /\ Admitted(MaxInFlight)
    \/ manual_flush /\ Admitted(MaxInFlight)
    \/ lifespan
    \/ GET_stats
    \/ GET_health

SpecRead == Init /\ [][NextRead]_vars

\* the service sent the bodies of Requests
NextInput ==
    \/ \E req \in Requests :
          ingest_log(req.source, req.level, req.message)
             /\ Admitted(MaxInFlight)
    \/ \E caller \in DOMAIN frames : save_to_postgres(caller)
    \/ periodic_aggregation /\ Admitted(MaxInFlight)
    \/ manual_flush /\ Admitted(MaxInFlight)
    \/ lifespan
    \/ db_outage

SpecInput == Init /\ [][NextInput]_vars

\* the bodies of the n-th POST /logs/ingest of the example scenario: an
\* error event for db, then an info event for db, then any
ExampleRequests(n) ==
    IF n = 1
    THEN {[source |-> "db", level |-> "error", message |-> "DB timeout"]}
    ELSE IF n = 2
    THEN {[source |-> "db", level |-> "info", message |-> "query ok"]}
    ELSE {[source |-> src, level |-> level, message |-> msg] :
             src \in Sources, level \in Levels, msg \in Messages}

\* the service sent the example scenario
NextExample ==
    \/ \E req \in ExampleRequests(next_id) :
          ingest_log(req.source, req.level, req.message)
             /\ Admitted(MaxInFlight)
    \/ \E caller \in DOMAIN frames : save_to_postgres(caller)
    \/ periodic_aggregation /\ Admitted(MaxInFlight)
    \/ manual_flush /\ Admitted(MaxInFlight)
    \/ lifespan
    \/ db_outage

SpecExample == Init /\ [][NextExample]_vars

\* the status codes and the sources POST /logs/http is sent, the second
\* source being the default of the endpoint
StatusCodes == {200, 399, 400, 500}
HttpSources == {"db", "http_monitoring"}

\* the service sent HTTP-monitoring logs, over a database that stays up
NextHttp ==
    \/ \E status_code \in StatusCodes, source \in HttpSources :
          ingest_http_log("GET", "/a", status_code, 5, source)
             /\ Admitted(MaxInFlight)
    \/ \E caller \in DOMAIN frames : save_to_postgres(caller)
    \/ periodic_aggregation /\ Admitted(MaxInFlight)
    \/ manual_flush /\ Admitted(MaxInFlight)
    \/ lifespan

SpecHttp == Init /\ [][NextHttp]_vars

\* ---------------------------------------------------------- summaries
\* a message of 101 characters
LongMessage ==
    "LLLLLLLLLLLLLLLLLLLLLLLLLLLLLLLLLLLLLLLLLLLLLLLLLLLLLLLLLLLLLLLLLLLLLLLLLLLLLLLLLLLLLLLLLLLLLLLLLLLLL"

\* the events a source's list may hold at rest: none of these levels
\* escalates, warning is counted as an error by the flush loop
SummaryEvents ==
    {[level |-> "info", message |-> msg] : msg \in {"a", "b", "c", "d"}}
    \cup {[level |-> "warning", message |-> msg] : msg \in {"w", LongMessage}}

\* the environment of a service that buffers up to 9 events
SummaryEnv == [AGGREGATION_WINDOW |-> Absent, BATCH_SIZE |-> "10"]

\* the service run in SummaryEnv after it has ingested up to MaxLogs events
\* of SummaryEvents for source db, none of which made it flush
InitSummary ==
    /\ \E evs \in UNION {[1..n -> SummaryEvents] : n \in 0..MaxLogs} :
          /\ heap = [d \in {ModuleLoad} |->
                        IF evs = <<>> THEN <<>>
                        ELSE <<[source |-> "db",
                                logs |-> [i \in 1..Len(evs) |->
                                            [id |-> i, source |-> "db",
                                             level |-> evs[i].level,
                                             message |-> evs[i].message]]]>>]
          /\ next_id = Len(evs) + 1
    /\ log_buffer = ModuleLoad
    /\ last_flush = 0
    /\ db_pool \in {"none", "open"}
    /\ db_up = TRUE
    /\ phase = "serving"
    /\ config = LoadConfig(SummaryEnv)
    /\ defaulted = {}
    /\ last_reply = NoReply
    /\ timer = "sleeping"
    /\ ticks = 0
    /\ manuals = 0
    /\ frames = << >>
    /\ escalated = FALSE
    /\ cycles = << >>
    /\ handed = {}
    /\ counted = [i \in 1..MaxEvents |-> 0]
    /\ failed_ids = {}
    /\ responses = << >>

\* the buffered events are flushed by POST /flush
NextSummary ==
    \/ \E caller \in DOMAIN frames : save_to_postgres(caller)
    \/ manual_flush /\ Admitted(MaxInFlight)

SpecSummary == InitSummary /\ [][NextSummary]_vars

\* ---------------------------------------------------------- start-up
\* the process before the module is imported, in any environment
InitConfig ==
    /\ heap = [d \in {ModuleLoad} |-> <<>>]
    /\ log_buffer = ModuleLoad
    /\ last_flush = 0
    /\ db_pool = "none"
    /\ db_up = TRUE
    /\ phase = "importing"
    /\ \E w \in EnvValues, b \in EnvValues :
          config = [env |-> [AGGREGATION_WINDOW |-> w, BATCH_SIZE |-> b],
                    state |-> "unloaded",
                    AGGREGATION_WINDOW |-> 0, BATCH_SIZE |-> 0]
    /\ defaulted = {}
    /\ last_reply = NoReply
    /\ timer = "none"
    /\ ticks = 0
    /\ manuals = 0
    /\ frames = << >>
    /\ next_id = 1
    /\ escalated = FALSE
    /\ cycles = << >>
    /\ handed = {}
    /\ counted = [i \in 1..MaxEvents |-> 0]
    /\ failed_ids = {}
    /\ responses = << >>

\* the module is imported: its configuration lines run, and the ValueError
\* of int() ends the process
module_import ==
    /\ phase = "importing"
    /\ config' = LoadConfig(config.env)
    /\ phase' = IF config'.state = "aborted" THEN "aborted" ELSE "starting"
    /\ UNCHANGED <<heap, log_buffer, last_flush, db_pool, db_up, timer, ticks,
                   manuals, frames, next_id, escalated, cycles, handed,
                   counted, failed_ids, responses, defaulted, last_reply>>

\* lifespan up to its yield: the pool is created, or the failure to create
\* it is logged; the periodic task is created; requests are served
lifespan_startup ==
    /\ phase = "starting"
    /\ db_pool' \in {"none", "open"}
    /\ timer' = "sleeping"
    /\ phase' = "serving"
    /\ UNCHANGED <<heap, log_buffer, last_flush, db_up, ticks, manuals,
                   frames, next_id, escalated, cycles, handed, counted,
                   failed_ids, responses, config, defaulted, last_reply>>

NextConfig ==
    \/ module_import
    \/ lifespan_startup

SpecConfig == InitConfig /\ [][NextConfig]_vars

\* ------------------------------------------------------------ claims
\* the events held by a dict, and by the live dict objects
LogsOf(dct) ==
    UNION {{dct[i].logs[j] : j \in 1..Len(dct[i].logs)} : i \in 1..Len(dct)}

LiveLogs == UNION {LogsOf(heap[d]) : d \in DOMAIN heap}

\* the events in the buffer log_buffer is bound to
BufferedIds ==
    UNION {SeqIds(heap[log_buffer][i].logs) : i \in 1..Len(heap[log_buffer])}

\* C1: an event whose level is error or critical is never in memory
\* without the ingest call that appended it having started a flush cycle:
\* the cycle starts in the step that appends the event, before the call
\* returns or any other call runs.
C1_EscalationStartsFlush ==
    \A l \in LiveLogs :
        l.level \in {"error", "critical"} =>
            IngestCall(l.id) \in DOMAIN cycles

\* a critical event below the size threshold, its call's cycle in progress
C1_Witness ==
    \E l \in LiveLogs :
        /\ l.level = "critical"
        /\ TotalBuffered(heap[log_buffer]) < BATCH_SIZE
        /\ IngestCall(l.id) \in DOMAIN cycles
        /\ cycles[IngestCall(l.id)].state = "running"

\* C2: every escalation-triggered cycle that is over has handed the sink a
\* record for every source that had events when it started, and those
\* sources have no pending event when it ends.
C2_EscalationFlushIsGlobal ==
    \A c \in DOMAIN cycles :
        (cycles[c].why = "escalation" /\ cycles[c].state # "running") =>
            (cycles[c].covered /\ cycles[c].clean)

\* no timer tick, manual flush, shutdown or error/critical event so far
Quiet == ticks = 0 /\ manuals = 0 /\ phase = "serving" /\ ~escalated

C5_NoEventLost ==
    \A i \in 1..(next_id - 1) : i \in BufferedIds \/ counted[i] >= 1

\* C6: while the service is serving, no event has been counted in more
\* than one record.
C6_NoDuplicateRecords ==
    phase = "serving" => \A i \in DOMAIN counted : counted[i] <= 1

\* C7: at most one flush cycle is between its start and its buffer reset.
C7_CyclesDoNotOverlap ==
    Cardinality({c \in DOMAIN cycles : cycles[c].state = "running"}) <= 1

\* the records built so far that are still at hand: those of the last
\* step and those whose store is awaited
RecordsAtHand == handed \cup {frames[c].aggregated : c \in DOMAIN frames}

\* C8: in every record error_count + info_count = total_logs.
C8_CountsAddUp ==
    \A r \in RecordsAtHand : r.error_count + r.info_count = r.total_logs

\* a record with events in both buckets
C8_Witness ==
    \E r \in handed : r.error_count >= 1 /\ r.info_count >= 1

\* C9: with a connection pool, no record handed to the sink counts an
\* event of a record whose store has failed.
C9_FailedEventsNotRecordedAgain ==
    db_pool = "open" => \A r \in handed : r.events \cap failed_ids = {}

\* C10: a manual flush whose cycle had a store fail does not return what a
\* manual flush returns when every store succeeds.
C10_ManualFlushReportsFailure ==
    \A c \in DOMAIN responses :
        (c.kind = "manual" /\ c \in DOMAIN cycles /\ cycles[c].any_failed) =>
            responses[c] # [status |-> "flushed"]

\* C11: a GET /stats or GET /health leaves every dict object, the binding
\* of log_buffer and last_flush as they were, and a call that follows a
\* call of the same endpoint with no other step in between returns what
\* that one returned.
C11_ReadsChangeNothing ==
    [][last_reply'.op \in {"stats", "health"} =>
          /\ UNCHANGED <<heap, log_buffer, last_flush>>
          /\ last_reply.op = last_reply'.op => last_reply' = last_reply]_vars

\* /stats answered while a flush cycle waits for the sink and events are
\* buffered
C11_Witness ==
    /\ last_reply.op = "stats"
    /\ frames # << >>
    /\ last_reply.body.total_buffered >= 1

\* C12: while the service has not stopped the periodic task is alive,
\* asleep until its next tick or inside the flush of a tick: no flush
\* cycle, however it ends, ends the task.
C12_TimerKeepsFiring ==
    phase # "stopped" => timer \in {"sleeping", "flushing"}

\* C13: every key of the buffer map has at least one event in its list.
C13_NoEmptyKey ==
    \A i \in 1..Len(heap[log_buffer]) : heap[log_buffer][i].logs # <<>>

\* C14: a timer tick, a manual flush or a shutdown that finds no event
\* pending hands the sink no record and leaves the buffer map and
\* last_flush as they were.
C14_EmptyFlushIsNoop ==
    [][(/\ TotalBuffered(heap[log_buffer]) = 0
        /\ \/ ticks' # ticks
           \/ manuals' # manuals
           \/ phase = "serving" /\ phase' # "serving")
       => /\ handed' = {}
          /\ heap'[log_buffer'] = heap[log_buffer]
          /\ last_flush' = last_flush]_vars

\* the number of events pending for source src in dict dct
PendingFor(dct, src) ==
    IF KeyIndex(dct, src) = 0 THEN 0 ELSE Len(dct[KeyIndex(dct, src)].logs)

\* C15: an ingest call that returns returns status accepted and, as
\* buffer_size, the number of events pending for its source at that moment
\* (its source: the one its suspended frame holds or its buffered event
\* shows; when neither is left, a source of the buffer map).
C15_IngestReturnsDepth ==
    [][\A c \in DOMAIN responses' \ DOMAIN responses :
          c.kind = "ingest" =>
             LET now == heap'[log_buffer']
                 own == {l \in LogsOf(now) : l.id = c.n}
                 srcs == IF c \in DOMAIN frames THEN {frames[c].src}
                         ELSE IF own # {} THEN {l.source : l \in own}
                         ELSE {now[i].source : i \in 1..Len(now)}
             IN  /\ responses'[c].status = "accepted"
                 /\ \E src \in srcs :
                       responses'[c].buffer_size = PendingFor(now, src)]_vars

\* the levels the specification documents
DocumentedLevels == {"debug", "info", "warn", "error", "critical"}

\* C16: no event with a level outside the documented set is ever buffered.
C16_UnknownLevelRejected ==
    \A l \in LiveLogs : l.level \in DocumentedLevels

\* C17: no event with an empty message or an empty source is ever
\* buffered, and the buffer map has no key for the empty source.
C17_EmptyFieldsRejected ==
    /\ \A l \in LiveLogs : l.message # "" /\ l.source # ""
    /\ KeyIndex(heap[log_buffer], "") = 0

\* C18: an event ingested without a level starts no escalation cycle, is
\* buffered with level info, and every record counts it in info_count and
\* not in error_count.
C18_AbsentLevelIsInfo ==
    /\ \A i \in defaulted :
          IngestCall(i) \in DOMAIN cycles =>
             cycles[IngestCall(i)].why # "escalation"
    /\ \A l \in LiveLogs : l.id \in defaulted => l.level = "info"
    /\ \A r \in RecordsAtHand :
          /\ r.info_count >= Cardinality(r.events \cap defaulted)
          /\ r.error_count <= Cardinality(r.events \ defaulted)

\* a record that counts an event ingested without a level next to an error
C18_Witness ==
    \E r \in RecordsAtHand :
        /\ r.events \cap defaulted # {}
        /\ r.error_count >= 1
        /\ r.info_count >= 1

\* C19: the service serves only with an aggregation window and a batch
\* size that are positive integers.
C19_ConfigIsPositive ==
    phase = "serving" =>
        config.AGGREGATION_WINDOW >= 1 /\ config.BATCH_SIZE >= 1

\* text.startswith(prefix)
StartsWith(text, prefix) ==
    Len(text) >= Len(prefix) /\ SubSeq(text, 1, Len(prefix)) = prefix

\* no timer tick, manual flush or shutdown so far
NoOtherTrigger == ticks = 0 /\ manuals = 0 /\ phase = "serving"

\* C20 as stated: in the example scenario (an error event for db, then an
\* info event for db, nothing else) every record handed to the sink is the
\* one record for db with total 2, error_count 1, info_count 1 and a text
\* that starts with "[db] 1 errors, 1 info messages.".
C20_OneRecordForBoth ==
    (NoOtherTrigger /\ next_id <= 3) =>
        \A r \in RecordsAtHand :
            /\ r.source = "db"
            /\ r.total_logs = 2
            /\ r.error_count = 1
            /\ r.info_count = 1
            /\ StartsWith(r.text, "[db] 1 errors, 1 info messages.")

\* the record of the error event alone
ErrorAlone(r) ==
    /\ r.source = "db"
    /\ r.events = {1}
    /\ r.total_logs = 1
    /\ r.error_count = 1
    /\ r.info_count = 0
    /\ StartsWith(r.text, "[db] 1 errors, 0 info messages.")

\* C20 amended: in the example scenario the ingest of the error event
\* starts an escalation cycle by itself, and the one record of that cycle
\* is for db with total 1, error_count 1, info_count 0 and a text that
\* starts with "[db] 1 errors, 0 info messages."; it does not count the
\* info event.
C20_ErrorFlushedAlone ==
    /\ next_id >= 2 =>
          /\ IngestCall(1) \in DOMAIN cycles
          /\ cycles[IngestCall(1)].why = "escalation"
          /\ cycles[IngestCall(1)].state = "running" =>
                /\ cycles[IngestCall(1)].recorded = {"db"}
                /\ cycles[IngestCall(1)].total = 1
          /\ cycles[IngestCall(1)].state = "done" =>
                cycles[IngestCall(1)].covered /\ cycles[IngestCall(1)].lossless
    /\ IngestCall(1) \in DOMAIN frames =>
          ErrorAlone(frames[IngestCall(1)].aggregated)
    /\ (NoOtherTrigger /\ next_id = 2) => \A r \in handed : ErrorAlone(r)

\* the error event's record at hand, its store awaited, the info event not
\* yet ingested
C20_Witness ==
    /\ next_id = 2
    /\ NoOtherTrigger
    /\ IngestCall(1) \in DOMAIN frames
    /\ frames[IngestCall(1)].aggregated \in handed
    /\ ErrorAlone(frames[IngestCall(1)].aggregated)

\* the levels the specification puts in the error bucket
ErrorBucketLevels == {"warn", "error", "critical"}

\* the events a record counted, while the dict that held them is alive
CountedLogs(r) == {l \in LiveLogs : l.id \in r.events}

\* C21: in every record, error_count is the number of its events whose
\* level is warn, error or critical and info_count the number of its other
\* events (stated of the records whose events are all still in memory).
C21_ErrorBucketCounts ==
    \A r \in RecordsAtHand :
        Cardinality(CountedLogs(r)) = r.total_logs =>
            /\ r.error_count =
                  Cardinality({l \in CountedLogs(r) :
                                  Lower(l.level) \in ErrorBucketLevels})
            /\ r.info_count =
                  Cardinality({l \in CountedLogs(r) :
                                  Lower(l.level) \notin ErrorBucketLevels})

\* C22: a cycle that has reset the buffer counted in its records exactly
\* the events the buffer held when it started, and every event ingested
\* since it started is in the buffer when it ends.
C22_CycleCoversItsSnapshot ==
    \A c \in DOMAIN cycles :
        cycles[c].state = "done" => cycles[c].exact /\ cycles[c].kept

\* C23: a cycle that raised partway has left none of the events it
\* counted in a record in the buffer, so that no later cycle counts them
\* again.
C23_SummarizedSourcesCleared ==
    \A c \in DOMAIN cycles :
        cycles[c].state = "raised" => cycles[c].cleared

\* C24: no flush cycle ends by raising.
C24_NoCycleRaises ==
    \A c \in DOMAIN cycles : cycles[c].state # "raised"

\* C25: the event of an ingest call that ended in an error is not in the
\* buffer.
C25_FailedIngestLeavesNothing ==
    \A c \in DOMAIN responses :
        (c.kind = "ingest" /\ responses[c].status = "error") =>
            c.n \notin BufferedIds

\* no flush cycle is suspended in a sink write, so no ingest call, timer
\* tick, manual flush or shutdown is in progress
Idle == frames = << >>

\* C26: whenever no ingest call and no flush cycle is in progress, fewer
\* than BATCH_SIZE events are buffered.
C26_IdleBufferBelowBatch ==
    Idle => TotalBuffered(heap[log_buffer]) < BATCH_SIZE

\* C27: a record handed to the sink by the last step counts all the events
\* buffered for its source in the dict its cycle iterates, at least one;
\* and a cycle that is over has handed the sink one record for every
\* source that had events when it started, counting as many events as the
\* buffer then held.
C27_OneRecordPerPendingSource ==
    /\ \A c \in DOMAIN frames :
          LET f == frames[c]
          IN  f.aggregated \in handed =>
                 /\ f.aggregated.source = heap[f.d][f.pos].source
                 /\ f.aggregated.total_logs >= 1
                 /\ f.aggregated.total_logs = Len(heap[f.d][f.pos].logs)
    /\ \A c \in DOMAIN cycles :
          cycles[c].state # "running" =>
             cycles[c].covered /\ cycles[c].lossless

\* how many events of logs carry message msg, and the first that does
Count(logs, msg) == Cardinality({i \in 1..Len(logs) : logs[i].message = msg})

FirstAt(logs, msg) ==
    CHOOSE i \in 1..Len(logs) :
        /\ logs[i].message = msg
        /\ \A j \in 1..(i - 1) : logs[j].message # msg

\* m1 is listed before m2: it occurs more often, or as often and first
Outranks(logs, m1, m2) ==
    \/ Count(logs, m1) > Count(logs, m2)
    \/ Count(logs, m1) = Count(logs, m2) /\ FirstAt(logs, m1) < FirstAt(logs, m2)

\* the n first of msgs in that order
RECURSIVE Ranked(_, _, _)
Ranked(logs, msgs, n) ==
    IF n = 0 \/ msgs = {} THEN <<>>
    ELSE LET best == CHOOSE m1 \in msgs :
                         \A m2 \in msgs \ {m1} : Outranks(logs, m1, m2)
         IN  <<best>> \o Ranked(logs, msgs \ {best}, n - 1)

\* the activity summary the specification describes for logs
ActivitySummary(source, logs) ==
    LET top == Ranked(logs, {logs[i].message : i \in 1..Len(logs)}, 3)
    IN  "[" \o source \o "] Activity summary: "
        \o Join([i \in 1..Len(top) |->
                    top[i] \o " (" \o ToString(Count(logs, top[i])) \o "x)"])

\* C28: the text of a record with no event in the error bucket is the
\* activity summary of the source's flushed events: at most 3 distinct
\* messages, each with its exact count, by descending count, ties in order
\* of first occurrence.
C28_TopThreeByCount ==
    \A c \in DOMAIN frames :
        LET f == frames[c]
            logs == heap[f.d][f.pos].logs
        IN  (f.aggregated.error_count = 0 /\ f.aggregated.events = SeqIds(logs))
               => f.aggregated.text = ActivitySummary(f.aggregated.source, logs)

\* five info events with four distinct messages, the last one twice: it
\* is listed first, then the two oldest of the others
C28_Witness ==
    \E c \in DOMAIN frames :
        /\ frames[c].aggregated.total_logs = 5
        /\ frames[c].aggregated.info_count = 5
        /\ frames[c].aggregated.text
              = "[db] Activity summary: d (2x); a (1x); b (1x)"

\* the positions of the error bucket's events in logs, and the k-th
ErrIdx(logs) == {i \in 1..Len(logs) : IsErrorLog(logs[i])}

KthError(logs, k) ==
    CHOOSE i \in ErrIdx(logs) :
        Cardinality({j \in ErrIdx(logs) : j < i}) = k - 1

\* the first 100 characters of msg
Cut100(msg) == IF Len(msg) > 100 THEN SubSeq(msg, 1, 100) ELSE msg

\* the error summary the specification describes for logs
ErrorSummary(source, logs) ==
    LET errors == Cardinality(ErrIdx(logs))
        listed == IF errors < 3 THEN errors ELSE 3
    IN  "[" \o source \o "] " \o ToString(errors) \o " errors, "
        \o ToString(Len(logs) - errors) \o " info messages. Errors: "
        \o Join([k \in 1..listed |-> Cut100(logs[KthError(logs, k)].message)])

\* C29: the text of a record with an event in the error bucket states the
\* two counts and lists the messages of the first min(3, error_count)
\* events of the bucket in ingestion order, each cut to 100 characters.
C29_FirstThreeErrors ==
    \A c \in DOMAIN frames :
        LET f == frames[c]
            logs == heap[f.d][f.pos].logs
        IN  (f.aggregated.error_count >= 1 /\ f.aggregated.events = SeqIds(logs))
               => f.aggregated.text = ErrorSummary(f.aggregated.source, logs)

\* four events in the bucket after an info event, the first and the third
\* with the long message: the text lists three, the long ones cut
C29_Witness ==
    \E c \in DOMAIN frames :
        LET logs == heap[frames[c].d][frames[c].pos].logs
        IN  /\ frames[c].aggregated.error_count = 4
            /\ frames[c].aggregated.info_count = 1
            /\ logs[1].level = "info"
            /\ logs[4].message = LongMessage
            /\ logs[5].message = "w"
            /\ logs[2].message = LongMessage
            /\ logs[3].message = "w"
            /\ Len(frames[c].aggregated.text) = 245

====
